---------------------------- MODULE Spec2Model ----------------------------
(***************************************************************************)
(* A model of app.py, the "SP Probables Tracker": fetch_html,              *)
(* parse_pitcher_entry, extract_dates_from_headers, extract_pitcher_starts *)
(* and the button callback of main.                                        *)
(*                                                                         *)
(* Text is modelled as a sequence of one-character strings, so that the    *)
(* regular expressions, strip(), lower(), split() and the string           *)
(* comparison of the sort are computed character by character.             *)
(***************************************************************************)
EXTENDS Integers, Sequences, FiniteSets, Bags, TLC

VARIABLES
    pc,            \* position of the run
    entry,         \* argument of parse_pitcher_entry (SpecParse)
    parsed,        \* its return value (SpecParse)
    clock,         \* the wall clock datetime.now() reads: [year, month]
    ticks,         \* how often the clock advanced during the run
    clock0,        \* the clock when the button was pressed
    player_input,  \* the text area's content
    players,       \* main's list of names (player_names of the extractor)
    html_soup,     \* the fetched document
    header_row,    \* extract_dates_from_headers: index of the row it reads, 0 = None
    th_i,          \* ... its loop index idx
    token,         \* ... month and day of the header it is working on
    current_year,  \* ... its local current_year
    dates,         \* ... its dict, date_mapping of the caller
    row_i,         \* extract_pitcher_starts: index of the next tr
    parsed_rows,   \* ... its list
    pitcher_starts,\* main: the returned frame's rows
    shown,         \* what the run has put on the page
    exc            \* the exception that left main, "" if none

vars == <<pc, entry, parsed, clock, ticks, clock0, player_input, players,
          html_soup, header_row, th_i, token, current_year, dates, row_i,
          parsed_rows, pitcher_starts, shown, exc>>

-----------------------------------------------------------------------------
(* Characters *)

UpperSeq == <<"A","B","C","D","E","F","G","H","I","J","K","L","M",
              "N","O","P","Q","R","S","T","U","V","W","X","Y","Z">>
LowerSeq == <<"a","b","c","d","e","f","g","h","i","j","k","l","m",
              "n","o","p","q","r","s","t","u","v","w","x","y","z">>
DigitSeq == <<"0","1","2","3","4","5","6","7","8","9">>

Range(s) == {s[i] : i \in DOMAIN s}

\* [A-Z], [a-z], \d, [A-Za-z], \w and \s of Python's re on the characters used
Upper == Range(UpperSeq)
Lower == Range(LowerSeq)
Digit == Range(DigitSeq)
Letter == Upper \cup Lower
WordChar == Letter \cup Digit \cup {"_"}
WhiteSpace == {" ", "\t", "\n", "\r", "\f"}

\* the characters in code point order: str comparison compares code points
AsciiOrder == <<"\t", "\n", "\f", "\r", " ", "(", ")", "-", "/">> \o DigitSeq
                 \o <<"@">> \o UpperSeq \o <<"_">> \o LowerSeq

IndexIn(s, c) == CHOOSE i \in DOMAIN s : s[i] = c

Ord(c) == IndexIn(AsciiOrder, c)

-----------------------------------------------------------------------------
(* str methods *)

AllIn(s, i, j, C) == \A k \in i..j : s[k] \in C

RECURSIVE SkipWhile(_, _, _)
\* the first index >= i of s whose character is not in C (Len(s)+1 if none)
SkipWhile(s, i, C) ==
    IF i <= Len(s) /\ s[i] \in C THEN SkipWhile(s, i + 1, C) ELSE i

RECURSIVE SkipBack(_, _, _)
\* the last index <= i of s whose character is not in C (0 if none)
SkipBack(s, i, C) ==
    IF i >= 1 /\ s[i] \in C THEN SkipBack(s, i - 1, C) ELSE i

\* str.strip()
Strip(s) == SubSeq(s, SkipWhile(s, 1, WhiteSpace), SkipBack(s, Len(s), WhiteSpace))

LowerChar(c) == IF c \in Upper THEN LowerSeq[IndexIn(UpperSeq, c)] ELSE c

\* str.lower()
ToLower(s) == [i \in DOMAIN s |-> LowerChar(s[i])]

RECURSIVE Split(_, _)
\* str.split(sep) for a one-character separator
Split(s, sep) ==
    LET i == SkipWhile(s, 1, Range(s) \ {sep})
    IN  IF i > Len(s) THEN <<s>>
        ELSE <<SubSeq(s, 1, i - 1)>> \o Split(SubSeq(s, i + 1, Len(s)), sep)

RECURSIVE StrLess(_, _)
\* a < b on str
StrLess(a, b) ==
    IF b = <<>> THEN FALSE
    ELSE IF a = <<>> THEN TRUE
    ELSE IF a[1] # b[1] THEN Ord(a[1]) < Ord(b[1])
    ELSE StrLess(Tail(a), Tail(b))

-----------------------------------------------------------------------------
(* parse_pitcher_entry *)

None == [ok |-> FALSE, handedness |-> "", pitcher_name |-> <<>>,
         formatted_opponent |-> <<>>]

NoMatch == [ok |-> FALSE, g1 |-> <<>>, g2 |-> <<>>, g3 |-> <<>>, g4 |-> ""]

\* One attempt of r"^(@)?\s*([A-Z]{3})\s*([A-Za-z\s]+)\s*\(([LR])\)$" with
\* (@)? taking `a` characters.  After it every choice is forced: \s* cannot
\* give a character back to [A-Z], and group 3 ends at the first character
\* outside [A-Za-z\s], which has to be the "(" .
EntryMatchFrom(s, a) ==
    LET n  == Len(s)
        p  == SkipWhile(s, a + 1, WhiteSpace)            \* \s*
        w  == SkipWhile(s, p + 3, WhiteSpace)            \* \s* (greedy)
        q  == SkipWhile(s, p + 3, Letter \cup WhiteSpace)
        \* [A-Za-z\s]+ needs one character: when the greedy \s* before it
        \* took them all, it gives the last one back
        b  == IF w < q THEN w ELSE q - 1
    IN  IF /\ p + 2 <= n
           /\ \A k \in p..(p + 2) : s[k] \in Upper      \* ([A-Z]{3})
           /\ q > p + 3                                  \* ([A-Za-z\s]+)
           /\ q + 2 <= n
           /\ s[q] = "(" /\ s[q + 1] \in {"L", "R"} /\ s[q + 2] = ")"
           \* $ matches at the end and before a newline that ends the string
           /\ \/ q + 2 = n
              \/ q + 3 = n /\ s[n] = "\n"
        THEN [ok |-> TRUE, g1 |-> SubSeq(s, 1, a), g2 |-> SubSeq(s, p, p + 2),
              g3 |-> SubSeq(s, b, q - 1), g4 |-> s[q + 1]]
        ELSE NoMatch

\* re.match(pattern, entry): (@)? first tries to take the "@", then nothing
EntryMatch(s) ==
    LET withAt == IF Len(s) >= 1 /\ s[1] = "@"
                  THEN EntryMatchFrom(s, 1) ELSE NoMatch
    IN  IF withAt.ok THEN withAt ELSE EntryMatchFrom(s, 0)

\* the opponent with the two markers exchanged
FormattedOpponentSwapped(g1, g2) ==
    (IF g1 = <<"@">> THEN <<"v">> ELSE <<"@">>) \o <<" ">> \o g2

\* f"{'@' if match.group(1) == '@' else 'v'} {match.group(2)}"
FormattedOpponent(g1, g2) ==
    (IF g1 = <<"@">> THEN <<"@">> ELSE <<"v">>) \o <<" ">> \o g2

parse_pitcher_entry(s) ==
    LET m == EntryMatch(s)
    IN  IF m.ok
        THEN [ok |-> TRUE, handedness |-> m.g4, pitcher_name |-> Strip(m.g3),
              formatted_opponent |-> FormattedOpponent(m.g1, m.g2)]
        ELSE None


-----------------------------------------------------------------------------
(* int, datetime and strftime *)

StripZeros(ds) == SubSeq(ds, SkipWhile(ds, 1, {"0"}), Len(ds))

\* INT_MAX: datetime() converts its arguments to C int
CIntMaxDigits == <<"2","1","4","7","4","8","3","6","4","7">>

\* whether the Python int written ds fits a C int
FitsCInt(ds) ==
    LET z == StripZeros(ds)
    IN  Len(z) < 10 \/ (Len(z) = 10 /\ ~StrLess(CIntMaxDigits, z))

DigitVal(c) == IndexIn(DigitSeq, c) - 1

RECURSIVE IntOf(_)
\* int(ds) of a digit string whose value fits
IntOf(ds) ==
    IF ds = <<>> THEN 0
    ELSE 10 * IntOf(SubSeq(ds, 1, Len(ds) - 1)) + DigitVal(ds[Len(ds)])

\* month < k for the Python int month (unbounded) and a small k
PyLess(ds, k) == FitsCInt(ds) /\ IntOf(ds) < k

IsLeap(y) == y % 4 = 0 /\ (y % 100 # 0 \/ y % 400 = 0)

DaysInMonth(y, m) ==
    IF m = 2 THEN (IF IsLeap(y) THEN 29 ELSE 28)
    ELSE IF m \in {4, 6, 9, 11} THEN 30 ELSE 31

RECURSIVE Digits(_)
Digits(n) ==
    IF n < 10 THEN <<DigitSeq[n + 1]>>
    ELSE Digits(n \div 10) \o <<DigitSeq[(n % 10) + 1]>>

RECURSIVE Zeros(_)
Zeros(n) == IF n <= 0 THEN <<>> ELSE <<"0">> \o Zeros(n - 1)

Pad(n, w) == Zeros(w - Len(Digits(n))) \o Digits(n)

\* date_obj.strftime("%Y-%m-%d") for a year of four digits
Strftime(y, m, d) == Pad(y, 4) \o <<"-">> \o Pad(m, 2) \o <<"-">> \o Pad(d, 2)

\* datetime(year, month, day).strftime("%Y-%m-%d"), or the exception raised
MakeDate(year, month, day) ==
    IF ~FitsCInt(month) \/ ~FitsCInt(day)
    THEN [kind |-> "OverflowError", text |-> <<>>]
    ELSE LET m == IntOf(month)
             d == IntOf(day)
         IN  IF \/ year \notin 1..9999
                \/ m \notin 1..12
                \/ d \notin 1..DaysInMonth(year, m)
             THEN [kind |-> "ValueError", text |-> <<>>]
             ELSE [kind |-> "ok", text |-> Strftime(year, m, d)]

-----------------------------------------------------------------------------
(* The document: a container, a table, the table's sections (thead, tbody, *)
(* or "" for rows that are direct children of the table), rows of cells    *)

IsTh(c) == c.tag = "th"
IsTd(c) == c.tag = "td"

\* find_all("th"), find_all("td") of a row
Ths(row) == SelectSeq(row, IsTh)
Tds(row) == SelectSeq(row, IsTd)

\* get_text(strip=True) of a cell that holds one string
GetText(cell) == Strip(cell.text)

RECURSIVE AllRows(_)
\* table.find_all("tr"): the rows of all sections in document order
AllRows(sections) ==
    IF sections = <<>> THEN <<>>
    ELSE sections[1].rows \o AllRows(Tail(sections))

\* table.find("tbody"): the first tbody, 0 for None
FirstTbody(sections) ==
    IF \E k \in DOMAIN sections : sections[k].tag = "tbody"
    THEN CHOOSE k \in DOMAIN sections :
            /\ sections[k].tag = "tbody"
            /\ \A j \in 1..(k - 1) : sections[j].tag # "tbody"
    ELSE 0

\* soup.find("div", ...).find("table").find("tbody").find("tr"): the index
\* among the table's rows of the first row of the first tbody; 0 when
\* find("tbody") or find("tr") gives None
FindHeaderRow(soup) ==
    LET k == FirstTbody(soup.sections)
    IN  IF k = 0 THEN 0
        ELSE IF soup.sections[k].rows = <<>> THEN 0
        ELSE Len(AllRows(SubSeq(soup.sections, 1, k - 1))) + 1

-----------------------------------------------------------------------------
(* extract_dates_from_headers *)

NoDateMatch == [ok |-> FALSE, month_day |-> <<>>]

\* r"(\w{3})\s*(\d+/\d+)" tried at position i
DateMatchAt(s, i) ==
    LET p  == SkipWhile(s, i + 3, WhiteSpace)
        d1 == SkipWhile(s, p, Digit)
        d2 == SkipWhile(s, d1 + 1, Digit)
    IN  IF /\ i + 2 <= Len(s)
           /\ AllIn(s, i, i + 2, WordChar)
           /\ d1 > p
           /\ d1 <= Len(s)
           /\ s[d1] = "/"
           /\ d2 > d1 + 1
        THEN [ok |-> TRUE, month_day |-> SubSeq(s, p, d2 - 1)]
        ELSE NoDateMatch

\* re.search: the match at the leftmost position that has one
DateSearch(s) ==
    IF \E i \in DOMAIN s : DateMatchAt(s, i).ok
    THEN DateMatchAt(s, CHOOSE i \in DOMAIN s :
                            /\ DateMatchAt(s, i).ok
                            /\ \A j \in 1..(i - 1) : ~DateMatchAt(s, j).ok)
    ELSE NoDateMatch

\* month, day = map(int, month_day.split("/")), the ints as digit strings
MonthDay(month_day) ==
    LET parts == Split(month_day, "/")
    IN  [month |-> parts[1], day |-> parts[2]]

\* lines 92-95: the year of a header, from current_year and now().month
InferYear(year, month, now_month) ==
    IF PyLess(month, now_month) THEN year + 1 ELSE year

\* header_row.find_all("th")[1:]
HeaderCells(soup) ==
    LET ths == Ths(AllRows(soup.sections)[header_row])
    IN  SubSeq(ths, 2, Len(ths))

-----------------------------------------------------------------------------
(* extract_pitcher_starts *)

Unknown == <<"U","n","k","n","o","w","n">>

\* the membership test without lower()
ShouldIncludeExact(parsed_entry, player_names) ==
    \/ player_names = <<>>
    \/ parsed_entry.pitcher_name \in Range(player_names)

\* not player_names or parsed_entry["pitcher_name"].lower() in player_names
ShouldInclude(parsed_entry, player_names) ==
    \/ player_names = <<>>
    \/ ToLower(parsed_entry.pitcher_name) \in Range(player_names)

\* the lookup without the offset of one
DateOfSameIndex(date_mapping, col_idx) ==
    IF col_idx \in DOMAIN date_mapping THEN date_mapping[col_idx] ELSE Unknown

\* date_mapping.get(col_idx - 1, "Unknown")
DateOf(date_mapping, col_idx) ==
    IF (col_idx - 1) \in DOMAIN date_mapping
    THEN date_mapping[col_idx - 1] ELSE Unknown

RECURSIVE RowEntries(_, _, _, _)
\* lines 148-164: the entries of the cells col_idx, col_idx + 1, ... of a row
RowEntries(row_data, col_idx, date_mapping, player_names) ==
    IF col_idx > Len(row_data) THEN <<>>
    ELSE LET parsed_entry == parse_pitcher_entry(row_data[col_idx])
             rest == RowEntries(row_data, col_idx + 1, date_mapping, player_names)
         IN  IF parsed_entry.ok /\ ShouldInclude(parsed_entry, player_names)
             THEN <<[Date |-> DateOf(date_mapping, col_idx),
                     Handedness |-> parsed_entry.handedness,
                     Pitcher |-> parsed_entry.pitcher_name,
                     Opponent |-> parsed_entry.formatted_opponent]>> \o rest
             ELSE rest

\* row_data of line 144
RowData(tr) == [i \in DOMAIN Tds(tr) |-> GetText(Tds(tr)[i])]

\* an insertion that puts x before the elements of equal key
InsertBeforeEqual(sorted, x) ==
    LET k == Cardinality({i \in DOMAIN sorted : StrLess(sorted[i].Date, x.Date)})
    IN  SubSeq(sorted, 1, k) \o <<x>> \o SubSeq(sorted, k + 1, Len(sorted))

\* one insertion of a stable sort by the key x["Date"]: x goes behind every
\* element whose key is not greater
InsertByDate(sorted, x) ==
    LET k == Cardinality({i \in DOMAIN sorted : ~StrLess(x.Date, sorted[i].Date)})
    IN  SubSeq(sorted, 1, k) \o <<x>> \o SubSeq(sorted, k + 1, Len(sorted))

RECURSIVE SortByDate(_)
\* parsed_rows.sort(key=lambda x: x["Date"]): list.sort is stable
SortByDate(rows) ==
    IF rows = <<>> THEN <<>>
    ELSE InsertByDate(SortByDate(SubSeq(rows, 1, Len(rows) - 1)), rows[Len(rows)])

-----------------------------------------------------------------------------
(* main *)

NonEmpty(line) == Strip(line) # <<>>

\* [name.strip().lower() for name in player_names.split("\n") if name.strip()]
PlayerList(text) ==
    LET lines == SelectSeq(Split(text, "\n"), NonEmpty)
    IN  [i \in DOMAIN lines |-> ToLower(Strip(lines[i]))]

-----------------------------------------------------------------------------
(* Values of the variables a specification does not use *)

NoSoup == [container |-> FALSE, table |-> FALSE, sections |-> <<>>]
NoToken == [month |-> <<>>, day |-> <<>>]
NoDates == <<>>

-----------------------------------------------------------------------------
(* SpecParse: parse_pitcher_entry applied to bounded texts *)

MaxPad == 1

RECURSIVE Spaces(_)
Spaces(n) == IF n = 0 THEN <<>> ELSE <<" ">> \o Spaces(n - 1)

Pads == {Spaces(n) : n \in 0..MaxPad}

ExEmpty == <<>>
ExTBD == <<"T","B","D">>
ExNYY == <<"N","Y","Y">>
ExAway == <<"@"," ","N","Y","Y"," ","J","o","h","n"," ","S","m","i","t","h",
            " ","(","L",")">>
ExHome == <<"B","O","S"," ","J","a","n","e"," ","D","o","e"," ","(","R",")">>

EntryCodes == {<<"N","Y","Y">>, <<"B","O","S">>, <<"N","Y">>, <<"n","y","y">>}
EntryNames == {<<>>, <<"J">>, <<"J","3">>,
               <<"J","o","h","n"," ","S","m","i","t","h">>}
EntryHands == {<<"(","L",")">>, <<"(","R",")">>, <<"(","X",")">>, <<"(","L">>}
EntryTrails == {<<>>, <<"\n">>, <<" ">>, <<"\n","\n">>}

EntryTexts ==
    {ExEmpty, ExTBD, ExNYY, ExAway, ExHome} \cup
    { lead \o at \o ws1 \o code \o ws2 \o name \o ws3 \o hand \o trail :
        lead \in Pads, at \in {<<>>, <<"@">>}, ws1 \in Pads,
        code \in EntryCodes, ws2 \in Pads, name \in EntryNames,
        ws3 \in Pads, hand \in EntryHands, trail \in EntryTrails }

InitParse ==
    /\ pc = "parse_call"
    /\ entry \in EntryTexts
    /\ parsed = None
    /\ clock = [year |-> 0, month |-> 0]
    /\ ticks = 0
    /\ clock0 = clock
    /\ player_input = <<>>
    /\ players = <<>>
    /\ html_soup = NoSoup
    /\ header_row = 0
    /\ th_i = 0
    /\ token = NoToken
    /\ current_year = 0
    /\ dates = NoDates
    /\ row_i = 0
    /\ parsed_rows = <<>>
    /\ pitcher_starts = <<>>
    /\ shown = {}
    /\ exc = ""

ParseCall ==
    /\ pc = "parse_call"
    /\ parsed' = parse_pitcher_entry(entry)
    /\ pc' = "parse_return"
    /\ UNCHANGED <<entry, clock, ticks, clock0, player_input, players,
                   html_soup, header_row, th_i, token, current_year, dates,
                   row_i, parsed_rows, pitcher_starts, shown, exc>>

NextParse == ParseCall

SpecParse == InitParse /\ [][NextParse]_vars

-----------------------------------------------------------------------------
(* The steps of one press of the button *)

\* main, lines 201-210: the button is pressed
Press ==
    /\ pc = "idle"
    /\ players' = PlayerList(player_input)
    /\ pc' = "fetch"
    /\ UNCHANGED <<entry, parsed, clock, ticks, clock0, player_input,
                   html_soup, header_row, th_i, token, current_year, dates,
                   row_i, parsed_rows, pitcher_starts, shown, exc>>

\* fetch_html, lines 22-31
FetchOk(Documents) ==
    /\ pc = "fetch"
    /\ \E d \in Documents : html_soup' = d
    /\ pc' = "extract"
    /\ UNCHANGED <<entry, parsed, clock, ticks, clock0, player_input, players,
                   header_row, th_i, token, current_year, dates,
                   row_i, parsed_rows, pitcher_starts, shown, exc>>

\* fetch_html, lines 33-35, and main, line 215 with html_soup = None
FetchFail ==
    /\ pc = "fetch"
    /\ shown' = shown \cup {"error"}
    /\ pc' = "done"
    /\ UNCHANGED <<entry, parsed, clock, ticks, clock0, player_input, players,
                   html_soup, header_row, th_i, token, current_year, dates,
                   row_i, parsed_rows, pitcher_starts, exc>>

\* extract_pitcher_starts, lines 120-131
FindTable ==
    /\ pc = "extract"
    /\ IF ~html_soup.container \/ ~html_soup.table
       THEN /\ shown' = shown \cup {"warning"}
            /\ pitcher_starts' = <<>>
            /\ pc' = "display"
       ELSE /\ pc' = "header_lookup"
            /\ UNCHANGED <<shown, pitcher_starts>>
    /\ UNCHANGED <<entry, parsed, clock, ticks, clock0, player_input, players,
                   html_soup, header_row, th_i, token, current_year, dates,
                   row_i, parsed_rows, exc>>

\* extract_dates_from_headers, lines 72-77; None.find and None.find_all
\* raise AttributeError, which nothing catches
HeaderLookup ==
    /\ pc = "header_lookup"
    /\ header_row' = FindHeaderRow(html_soup)
    /\ IF header_row' = 0
       THEN /\ exc' = "AttributeError"
            /\ pc' = "crashed"
            /\ UNCHANGED <<dates, th_i>>
       ELSE /\ dates' = NoDates
            /\ th_i' = 1
            /\ pc' = "header_loop"
            /\ exc' = exc
    /\ UNCHANGED <<entry, parsed, clock, ticks, clock0, player_input, players,
                   html_soup, token, current_year,
                   row_i, parsed_rows, pitcher_starts, shown>>

\* lines 78-86: the next header; line 103 and the caller's line 143 when
\* there is none
HeaderNext ==
    /\ pc = "header_loop"
    /\ IF th_i > Len(HeaderCells(html_soup))
       THEN /\ pc' = "rows"
            /\ row_i' = 2
            /\ parsed_rows' = <<>>
            /\ UNCHANGED <<th_i, token>>
       ELSE LET date_match == DateSearch(GetText(HeaderCells(html_soup)[th_i]))
            IN  /\ IF date_match.ok
                   THEN /\ token' = MonthDay(date_match.month_day)
                        /\ pc' = "read_year"
                        /\ th_i' = th_i
                   ELSE /\ th_i' = th_i + 1
                        /\ UNCHANGED <<pc, token>>
                /\ UNCHANGED <<row_i, parsed_rows>>
    /\ UNCHANGED <<entry, parsed, clock, ticks, clock0, player_input, players,
                   html_soup, header_row, current_year, dates,
                   pitcher_starts, shown, exc>>

\* line 89: current_year = datetime.now().year
ReadYear ==
    /\ pc = "read_year"
    /\ current_year' = clock.year
    /\ pc' = "read_month"
    /\ UNCHANGED <<entry, parsed, clock, ticks, clock0, player_input, players,
                   html_soup, header_row, th_i, token, dates,
                   row_i, parsed_rows, pitcher_starts, shown, exc>>

\* lines 92-101: datetime.now().month is read, the date is built and stored;
\* ValueError is caught, OverflowError is not
ReadMonth ==
    /\ pc = "read_month"
    /\ LET year == InferYear(current_year, token.month, clock.month)
           date_obj == MakeDate(year, token.month, token.day)
       IN  IF date_obj.kind = "OverflowError"
           THEN /\ exc' = "OverflowError"
                /\ pc' = "crashed"
                /\ UNCHANGED <<dates, th_i>>
           ELSE /\ dates' = IF date_obj.kind = "ok"
                            THEN (th_i :> date_obj.text) @@ dates
                            ELSE dates
                /\ th_i' = th_i + 1
                /\ pc' = "header_loop"
                /\ exc' = exc
    /\ UNCHANGED <<entry, parsed, clock, ticks, clock0, player_input, players,
                   html_soup, header_row, token, current_year,
                   row_i, parsed_rows, pitcher_starts, shown>>

NextMonth(c) ==
    IF c.month = 12 THEN [year |-> c.year + 1, month |-> 1]
    ELSE [year |-> c.year, month |-> c.month + 1]

MaxTicks == 1

\* the wall clock passes the end of a month while the resolver runs
Tick ==
    /\ pc \in {"header_loop", "read_year", "read_month"}
    /\ ticks < MaxTicks
    /\ clock' = NextMonth(clock)
    /\ ticks' = ticks + 1
    /\ UNCHANGED <<pc, entry, parsed, clock0, player_input, players,
                   html_soup, header_row, th_i, token, current_year, dates,
                   row_i, parsed_rows, pitcher_starts, shown, exc>>

\* lines 143-167: one tr of table.find_all("tr")[1:]
RowStep ==
    /\ pc = "rows"
    /\ row_i <= Len(AllRows(html_soup.sections))
    /\ parsed_rows' = parsed_rows \o
            RowEntries(RowData(AllRows(html_soup.sections)[row_i]), 1, dates, players)
    /\ row_i' = row_i + 1
    /\ UNCHANGED <<pc, entry, parsed, clock, ticks, clock0, player_input, players,
                   html_soup, header_row, th_i, token, current_year, dates,
                   pitcher_starts, shown, exc>>

\* lines 170-173: the rows are sorted and returned
SortReturn ==
    /\ pc = "rows"
    /\ row_i > Len(AllRows(html_soup.sections))
    /\ parsed_rows' = SortByDate(parsed_rows)
    /\ pitcher_starts' = parsed_rows'
    /\ pc' = "display"
    /\ UNCHANGED <<entry, parsed, clock, ticks, clock0, player_input, players,
                   html_soup, header_row, th_i, token, current_year, dates,
                   row_i, shown, exc>>

\* main, lines 220-224
Display ==
    /\ pc = "display"
    /\ shown' = shown \cup {IF pitcher_starts # <<>> THEN "table" ELSE "no_starts"}
    /\ pc' = "done"
    /\ UNCHANGED <<entry, parsed, clock, ticks, clock0, player_input, players,
                   html_soup, header_row, th_i, token, current_year, dates,
                   row_i, parsed_rows, pitcher_starts, exc>>

-----------------------------------------------------------------------------
(* Spec: one press of the button on bounded documents *)

Cell(tag, text) == [tag |-> tag, text |-> text]

HeaderRowA ==
    << Cell("th", <<"T","e","a","m">>),
       Cell("th", <<"M","o","n"," ","3","/","1","0">>),
       Cell("th", <<" ","T","h","u"," ","1","/","2","\n">>) >>

HeaderRowB ==
    << Cell("th", <<>>),
       Cell("th", <<"T","B","D">>),
       Cell("th", <<"S","a","t"," ","2","/","3","0">>),
       Cell("th", <<"W","e","d","1","2","/","3","1">>) >>

DataRowA ==
    << Cell("td", <<"N","Y","Y">>),
       Cell("td", <<"@"," ","B","O","S"," ","J","o","h","n"," ","S","m","i","t","h"," ","(","L",")">>),
       Cell("td", <<"S","E","A"," ","J","a","n","e"," ","D","o","e"," ","(","R",")">>),
       Cell("td", <<"T","B","D">>) >>

DataRowB ==
    << Cell("td", <<"B","O","S"," ","J","a","n","e"," ","D","o","e"," ","(","R",")">>),
       Cell("td", <<" ","N","Y","Y"," ","j","o","h","n"," ","s","m","i","t","h"," ","(","R",")","\n">>),
       Cell("td", <<"@"," ","S","E","A"," ","J","o","h","n"," ","S","m","i","t","h"," ","(","L",")">>),
       Cell("td", <<"L","A","D"," ","A","l"," ","R","o","e"," ","(","L",")">>) >>

\* a month that does not fit a C int
HeaderRowC ==
    << Cell("th", <<"T","e","a","m">>),
       Cell("th", <<"M","o","n"," ","2","1","4","7","4","8","3","6","4","8","/","1">>) >>

\* a data row whose label cell is a th
DataRowC ==
    << Cell("th", <<"S","E","A">>),
       Cell("td", <<"@"," ","N","Y","Y"," ","A","l"," ","R","o","e"," ","(","R",")">>),
       Cell("td", <<"T","B","D">>) >>

HeaderCatalog == {HeaderRowA, HeaderRowB, HeaderRowC}
DataCatalog == {DataRowA, DataRowB, DataRowC}

MaxDataRows == 2

\* no or one header row, then up to MaxDataRows data rows
RowSeqs ==
    {h \o d : h \in {<<>>} \cup {<<x>> : x \in HeaderCatalog},
              d \in UNION {[1..n -> DataCatalog] : n \in 0..MaxDataRows}}

\* rows directly in the table, rows in one tbody, or the first row in a
\* thead and the others in a tbody
Sections(layout, rows) ==
    CASE layout = "direct" -> <<[tag |-> "", rows |-> rows]>>
      [] layout = "tbody"  -> <<[tag |-> "tbody", rows |-> rows]>>
      [] layout = "thead"  -> <<[tag |-> "thead", rows |-> SubSeq(rows, 1, IF rows = <<>> THEN 0 ELSE 1)],
                                [tag |-> "tbody", rows |-> SubSeq(rows, 2, Len(rows))]>>

Docs ==
    {[container |-> FALSE, table |-> FALSE, sections |-> <<>>],
     [container |-> TRUE, table |-> FALSE, sections |-> <<>>],
     [container |-> TRUE, table |-> TRUE, sections |-> <<>>]} \cup
    {[container |-> TRUE, table |-> TRUE, sections |-> Sections(layout, rows)] :
        layout \in {"direct", "tbody", "thead"}, rows \in RowSeqs}

PlayerInputs ==
    { <<>>,
      <<" ","J","o","h","n"," ","S","m","i","t","h"," ","\n","\n","j","a","n","e"," ","d","o","e">>,
      <<"n","o","b","o","d","y">> }

FirstYear == 2026

StartMonths == {3, 12}

Init ==
    /\ pc = "idle"
    /\ entry = <<>>
    /\ parsed = None
    /\ clock \in {[year |-> FirstYear, month |-> m] : m \in StartMonths}
    /\ ticks = 0
    /\ clock0 = clock
    /\ player_input \in PlayerInputs
    /\ players = <<>>
    /\ html_soup = NoSoup
    /\ header_row = 0
    /\ th_i = 0
    /\ token = NoToken
    /\ current_year = 0
    /\ dates = NoDates
    /\ row_i = 0
    /\ parsed_rows = <<>>
    /\ pitcher_starts = <<>>
    /\ shown = {}
    /\ exc = ""

Next ==
    \/ Press
    \/ FetchOk(Docs)
    \/ FetchFail
    \/ FindTable
    \/ HeaderLookup
    \/ HeaderNext
    \/ ReadYear
    \/ ReadMonth
    \/ Tick
    \/ RowStep
    \/ SortReturn
    \/ Display

Spec == Init /\ [][Next]_vars

-----------------------------------------------------------------------------
(* SpecDates: extract_dates_from_headers on one header cell, for a range   *)
(* of month/day tokens and of current dates; the clock stands still        *)

MaxMonth == 13
MaxDay == 32
YearSpan == 2

IntMaxText == <<"2","1","4","7","4","8","3","6","4","7">>
IntMaxPlusOneText == <<"2","1","4","7","4","8","3","6","4","8">>

MonthTexts == {Digits(m) : m \in 0..MaxMonth}
                 \cup {<<"0","3">>, IntMaxText, IntMaxPlusOneText}
DayTexts == {Digits(d) : d \in 0..MaxDay}
                 \cup {<<"0","9">>, IntMaxText, IntMaxPlusOneText}

DateHeaderTexts ==
    {<<"T","B","D">>} \cup
    {<<"M","o","n"," ">> \o m \o <<"/">> \o d : m \in MonthTexts, d \in DayTexts}

InitDates ==
    /\ pc = "header_lookup"
    /\ entry = <<>>
    /\ parsed = None
    /\ clock \in {[year |-> y, month |-> m] :
                     y \in FirstYear..(FirstYear + YearSpan), m \in 1..12}
    /\ ticks = 0
    /\ clock0 = clock
    /\ player_input = <<>>
    /\ players = <<>>
    /\ html_soup \in
          {[container |-> TRUE, table |-> TRUE,
            sections |-> <<[tag |-> "tbody",
                            rows |-> << <<Cell("th", <<"T","e","a","m">>),
                                          Cell("th", t)>> >>]>>] :
              t \in DateHeaderTexts}
    /\ header_row = 0
    /\ th_i = 0
    /\ token = NoToken
    /\ current_year = 0
    /\ dates = NoDates
    /\ row_i = 0
    /\ parsed_rows = <<>>
    /\ pitcher_starts = <<>>
    /\ shown = {}
    /\ exc = ""

NextDates ==
    \/ HeaderLookup
    \/ HeaderNext
    \/ ReadYear
    \/ ReadMonth

SpecDates == InitDates /\ [][NextDates]_vars

-----------------------------------------------------------------------------
(* Claims about parse_pitcher_entry *)

\* The entry grammar in words: an optional "@" that whitespace may precede
\* and follow, three uppercase letters, a name of letters and whitespace,
\* then "(L)" or "(R)" as the last three characters of the text.
ConformsToGrammar(t) ==
    LET n == Len(t)
    IN  \E a \in 0..n :
          /\ AllIn(t, 1, a, WhiteSpace \cup {"@"})
          /\ Cardinality({i \in 1..a : t[i] = "@"}) <= 1
          /\ a + 3 <= n
          /\ AllIn(t, a + 1, a + 3, Upper)
          /\ a + 4 <= n - 3
          /\ AllIn(t, a + 4, n - 3, Letter \cup WhiteSpace)
          /\ t[n - 2] = "(" /\ t[n - 1] \in {"L", "R"} /\ t[n] = ")"

\* C4: parseEntry returns an entry exactly when the whole text conforms to
\* the entry grammar, with nothing (not even a newline) after the closing
\* parenthesis, and null for "", "TBD" and "NYY".
C4_ParsesExactlyTheGrammar ==
    pc = "parse_return" =>
        /\ parsed.ok <=> ConformsToGrammar(entry)
        /\ entry \in {ExEmpty, ExTBD, ExNYY} => ~parsed.ok

LastIndexOf(t, c) == CHOOSE i \in DOMAIN t : t[i] = c /\ \A j \in (i + 1)..Len(t) : t[j] # c

FirstIndexIn(t, C) == CHOOSE i \in DOMAIN t : t[i] \in C /\ \A j \in 1..(i - 1) : t[j] \notin C

\* name is seg without the whitespace around it
IsTrimOf(name, seg) ==
    /\ name # <<>> => name[1] \notin WhiteSpace /\ name[Len(name)] \notin WhiteSpace
    /\ \E i \in 0..Len(seg) :
          /\ i + Len(name) <= Len(seg)
          /\ SubSeq(seg, i + 1, i + Len(name)) = name
          /\ AllIn(seg, 1, i, WhiteSpace)
          /\ AllIn(seg, i + Len(name) + 1, Len(seg), WhiteSpace)

\* C5: for an accepted text, handedness is the letter inside the final
\* parentheses (L or R), pitcher_name is the text between the code and the
\* parenthesis without surrounding whitespace, and formatted_opponent is
\* "@ " + code when the text has the away marker and "v " + code otherwise;
\* the two documented examples give the documented entries.
C5_EntryFields ==
    pc = "parse_return" =>
        /\ parsed.ok =>
              LET t == entry
                  q == LastIndexOf(t, "(")
                  c == FirstIndexIn(t, Upper)
                  code == SubSeq(t, c, c + 2)
              IN  /\ parsed.handedness = t[q + 1]
                  /\ parsed.handedness \in {"L", "R"}
                  /\ IsTrimOf(parsed.pitcher_name, SubSeq(t, c + 3, q - 1))
                  /\ parsed.formatted_opponent =
                        (IF "@" \in Range(t) THEN <<"@", " ">> ELSE <<"v", " ">>) \o code
        /\ entry = ExAway =>
              parsed = [ok |-> TRUE, handedness |-> "L",
                        pitcher_name |-> <<"J","o","h","n"," ","S","m","i","t","h">>,
                        formatted_opponent |-> <<"@"," ","N","Y","Y">>]
        /\ entry = ExHome =>
              parsed = [ok |-> TRUE, handedness |-> "R",
                        pitcher_name |-> <<"J","a","n","e"," ","D","o","e">>,
                        formatted_opponent |-> <<"v"," ","B","O","S">>]

\* an accepted away entry whose name had whitespace around it
C5_Witness ==
    /\ pc = "parse_return"
    /\ parsed.ok
    /\ entry[1] = "@"
    /\ Len(parsed.pitcher_name) > 1
    /\ entry[LastIndexOf(entry, "(") - 1] \in WhiteSpace

-----------------------------------------------------------------------------
(* Claims about extract_dates_from_headers *)

\* the digit string ds writes the number k
NumIs(ds, k) ==
    /\ ds # <<>>
    /\ AllIn(ds, 1, Len(ds), Digit)
    /\ \E z \in 0..Len(ds) :
          /\ AllIn(ds, 1, z, {"0"})
          /\ IF k = 0 THEN z = Len(ds)
             ELSE /\ z < Len(ds) /\ ds[z + 1] # "0"
                  /\ Len(ds) - z <= 4
                  /\ IntOf(SubSeq(ds, z + 1, Len(ds))) = k

MonthLength(y, m) ==
    CASE m \in {1, 3, 5, 7, 8, 10, 12} -> 31
      [] m \in {4, 6, 9, 11} -> 30
      [] m = 2 -> IF y % 400 = 0 \/ (y % 4 = 0 /\ y % 100 # 0) THEN 29 ELSE 28

\* r is the zero-padded YYYY-MM-DD of (y, m, d)
IsIsoDate(r, y, m, d) ==
    /\ Len(r) = 10
    /\ r[5] = "-" /\ r[8] = "-"
    /\ NumIs(SubSeq(r, 1, 4), y)
    /\ NumIs(SubSeq(r, 6, 7), m)
    /\ NumIs(SubSeq(r, 9, 10), d)

\* what the year-inference rule gives the token (md, dd) at the current
\* date (Y, M): the map's entry, or no entry
RuleHolds(md, dd, Y, M, has, r) ==
    LET yr == IF \E k \in 0..(M - 1) : NumIs(md, k) THEN Y + 1 ELSE Y
        valid == \E m \in 1..12, d \in 1..31 :
                    NumIs(md, m) /\ NumIs(dd, d) /\ d <= MonthLength(yr, m)
    IN  IF valid
        THEN /\ has
             /\ \E m \in 1..12, d \in 1..31 :
                   NumIs(md, m) /\ NumIs(dd, d) /\ IsIsoDate(r, yr, m, d)
        ELSE ~has

HasToken(text) == "/" \in Range(text)
MonthOf(text) == SubSeq(text, 5, IndexIn(text, "/") - 1)
DayOf(text) == SubSeq(text, IndexIn(text, "/") + 1, Len(text))

\* C6: for every header token m/d and every current date (Y, M) the column
\* is mapped to year Y+1 when m < M and to Y otherwise, written YYYY-MM-DD;
\* when that is no calendar date the column gets no entry, and no error
\* is raised.
C6_YearInference ==
    LET text == html_soup.sections[1].rows[1][2].text
    IN  (pc \in {"rows", "crashed"} /\ HasToken(text)) =>
            /\ exc = ""
            /\ RuleHolds(MonthOf(text), DayOf(text), clock.year, clock.month,
                         1 \in DOMAIN dates,
                         IF 1 \in DOMAIN dates THEN dates[1] ELSE <<>>)

\* the same without the part "no error is raised"
C6_RuleWhenNoError ==
    LET text == html_soup.sections[1].rows[1][2].text
    IN  (pc = "rows" /\ HasToken(text)) =>
            RuleHolds(MonthOf(text), DayOf(text), clock.year, clock.month,
                      1 \in DOMAIN dates,
                      IF 1 \in DOMAIN dates THEN dates[1] ELSE <<>>)

-----------------------------------------------------------------------------
(* Claims about extract_pitcher_starts and main *)

\* extract_pitcher_starts has returned to main
Returned == pc \in {"display", "done"} /\ "error" \notin shown

TableRows == AllRows(html_soup.sections)

\* the cells of the data rows (all rows but the table's first), as
\* <<row, column>>, the column counted from 1 among the row's td cells
DataCells ==
    UNION {{<<r, c>> : c \in 1..Len(Tds(TableRows[r]))} : r \in 2..Len(TableRows)}

EntryAt(p) == parse_pitcher_entry(GetText(Tds(TableRows[p[1]])[p[2]]))

ParsedCells == {p \in DataCells : EntryAt(p).ok}

\* the parsed cells the allow-list lets through
AllowedCells ==
    {p \in ParsedCells :
        players = <<>> \/ ToLower(EntryAt(p).pitcher_name) \in Range(players)}

NameFields(r) ==
    [Handedness |-> r.Handedness, Pitcher |-> r.Pitcher, Opponent |-> r.Opponent]

EntryFields(p) ==
    [Handedness |-> EntryAt(p).handedness, Pitcher |-> EntryAt(p).pitcher_name,
     Opponent |-> EntryAt(p).formatted_opponent]

\* the record the cell p is to give
RecordAt(p) ==
    [Date |-> IF (p[2] - 1) \in DOMAIN dates THEN dates[p[2] - 1] ELSE Unknown,
     Handedness |-> EntryAt(p).handedness, Pitcher |-> EntryAt(p).pitcher_name,
     Opponent |-> EntryAt(p).formatted_opponent]

\* how often each value occurs among the values of a function
Counts(f) == [x \in Range(f) |-> Cardinality({i \in DOMAIN f : f[i] = x})]

\* C1: the allow-list is applied exactly.  With a non-empty playerNames every
\* returned record has a pitcher whose lowercased name is a member, and no
\* parsed cell with such a name is left out; with an empty playerNames there
\* is one record for every parsed cell of every data row.
C1_AllowListExact ==
    Returned =>
        /\ players # <<>> =>
              \A i \in DOMAIN pitcher_starts :
                  ToLower(pitcher_starts[i].Pitcher) \in Range(players)
        /\ players = <<>> => Len(pitcher_starts) = Cardinality(ParsedCells)
        /\ Counts([i \in DOMAIN pitcher_starts |-> NameFields(pitcher_starts[i])])
              = Counts([p \in AllowedCells |-> EntryFields(p)])

\* a filter that keeps some parsed cells, one of them written in another
\* case than the filter's, and drops others
C1_Witness ==
    /\ pc = "done"
    /\ players # <<>>
    /\ pitcher_starts # <<>>
    /\ Len(pitcher_starts) < Cardinality(ParsedCells)
    /\ \E i \in DOMAIN pitcher_starts :
          pitcher_starts[i].Pitcher # ToLower(pitcher_starts[i].Pitcher)

\* p comes before q row by row, then cell by cell
Before(p, q) == p[1] < q[1] \/ (p[1] = q[1] /\ p[2] < q[2])

\* the records in the order the cells are met
Encounter ==
    LET A == AllowedCells
    IN  [i \in 1..Cardinality(A) |->
            RecordAt(CHOOSE p \in A : Cardinality({q \in A : Before(q, p)}) = i - 1)]

RECURSIVE WithDate(_, _)
\* the records of s dated d, in the order of s
WithDate(s, d) ==
    IF s = <<>> THEN <<>>
    ELSE (IF s[1].Date = d THEN <<s[1]>> ELSE <<>>) \o WithDate(Tail(s), d)

\* C2: the returned sequence ascends by Date under string comparison, records
\* dated "Unknown" come after all dated ones, and the records of one Date
\* keep the order they were met in: the result is a stable sort of the
\* emitted records.
C2_SortedStable ==
    Returned =>
        /\ \A i, j \in DOMAIN pitcher_starts :
              i < j => ~StrLess(pitcher_starts[j].Date, pitcher_starts[i].Date)
        /\ \A i, j \in DOMAIN pitcher_starts :
              (i < j /\ pitcher_starts[i].Date = Unknown)
                  => pitcher_starts[j].Date = Unknown
        /\ LET E == Encounter
           IN  /\ Len(pitcher_starts) = Len(E)
               /\ \A d \in {E[i].Date : i \in DOMAIN E} :
                      WithDate(pitcher_starts, d) = WithDate(E, d)

\* the sort moved records, two different records share a Date, and a dated
\* record stands before an "Unknown" one
C2_Witness ==
    /\ pc = "done"
    /\ pitcher_starts # Encounter
    /\ \E i, j \in DOMAIN pitcher_starts :
          /\ i < j
          /\ pitcher_starts[i].Date = pitcher_starts[j].Date
          /\ pitcher_starts[i] # pitcher_starts[j]
    /\ \E i, j \in DOMAIN pitcher_starts :
          /\ i < j
          /\ pitcher_starts[i].Date # Unknown
          /\ pitcher_starts[j].Date = Unknown

\* the header row is missing where the resolver looks for it
StructureAbsent(soup) ==
    \/ ~soup.container
    \/ ~soup.table
    \/ \A k \in DOMAIN soup.sections : soup.sections[k].tag # "tbody"
    \/ \E k \in DOMAIN soup.sections :
          /\ soup.sections[k].tag = "tbody"
          /\ \A j \in 1..(k - 1) : soup.sections[j].tag # "tbody"
          /\ soup.sections[k].rows = <<>>

\* C3: when the container, the table, the body section or its first row is
\* missing, extractStarts returns an empty sequence and a warning is shown;
\* no exception leaves extractStarts or the header resolver.
C3_MalformedGivesWarning ==
    /\ exc = ""
    /\ (pc \in {"display", "done", "crashed"}
           /\ "error" \notin shown /\ StructureAbsent(html_soup))
          => /\ pc \in {"display", "done"}
             /\ pitcher_starts = <<>>
             /\ "warning" \in shown

\* C7: every press ends with feedback: an error banner, a warning banner,
\* the results table or the "No pitcher starts found" notice, and the table
\* is shown only for a non-empty sequence.
C7_AlwaysFeedback ==
    /\ pc \in {"done", "crashed"} =>
          shown \cap {"error", "warning", "table", "no_starts"} # {}
    /\ "table" \in shown => pitcher_starts # <<>>

\* the digits around the slash of a header text
SlashAt(text) == IndexIn(text, "/")
MonthDigits(text) ==
    SubSeq(text, SkipBack(text, SlashAt(text) - 1, Digit) + 1, SlashAt(text) - 1)
DayDigits(text) ==
    SubSeq(text, SlashAt(text) + 1, SkipWhile(text, SlashAt(text) + 1, Digit) - 1)

\* the header cell that stands at position k of the header row, the label
\* cell counted
HeaderAt(k) == Ths(TableRows[header_row])[k]

RECURSIVE Advance(_, _)
Advance(c, n) == IF n = 0 THEN c ELSE Advance(NextMonth(c), n - 1)

\* C9: the resolver is a function of the document and one current date: all
\* entries of the map follow the year-inference rule for one and the same
\* date, which the clock showed during the run.
C9_OneCurrentDate ==
    (pc \in {"rows", "display", "done"} /\ header_row # 0) =>
        \E n \in 0..ticks :
            \A k \in 1..(Len(Ths(TableRows[header_row])) - 1) :
                HasToken(HeaderAt(k + 1).text) =>
                    RuleHolds(MonthDigits(HeaderAt(k + 1).text),
                              DayDigits(HeaderAt(k + 1).text),
                              Advance(clock0, n).year, Advance(clock0, n).month,
                              k \in DOMAIN dates,
                              IF k \in DOMAIN dates THEN dates[k] ELSE <<>>)

\* C10: the resolver reads the table's first row, and the extractor parses
\* exactly the other rows: never the row used as header, and every other
\* row; a table without data rows gives an empty sequence.
C10_HeaderRowIsFirstRow ==
    /\ (pc \in {"header_loop", "read_year", "read_month", "rows", "display", "done"}
           /\ header_row # 0)
          => /\ header_row = 1
             /\ header_row \notin 2..(row_i - 1)
             /\ pc \in {"display", "done"} =>
                   2..(row_i - 1) = (1..Len(TableRows)) \ {header_row}
    /\ (Returned /\ Len(TableRows) <= 1) => pitcher_starts = <<>>

=============================================================================
